---- MODULE Spec2Model ----
(***************************************************************************)
(* A model of the error-correcting token pipeline of reynir_correct        *)
(* (errtokenizer.py) and of the annotation assembler (checker.py).         *)
(*                                                                         *)
(* Texts are strings; str.lower() and string concatenation are computed    *)
(* character by character and not assumed.  TLC stores the strings of a   *)
(* state byte by byte, so the Icelandic letters of the source's strings    *)
(* are written in ASCII: th for þ, d for ð, ae for æ, and the vowels       *)
(* without their accents (the case þgf is "thgf", VillaAð is "VillaAd").   *)
(***************************************************************************)
EXTENDS Integers, Sequences, FiniteSets, TLC

(***************************************************************************)
(* Bounds of the model                                                     *)
(***************************************************************************)
\* The longest raw token stream handed to the pipeline
MaxLen == 3

\* How often the Token Correction Phase is run in a row, each time on the
\* output of the run before
MaxPasses == 2

(***************************************************************************)
(* Texts: Python str and None                                              *)
(***************************************************************************)
\* Python's None as the txt of a token (sentence markers have no text):
\* a string no token text equals
NoneTxt == " None "

\* str.lower() on one character
LowerChar(c) ==
    CASE c = "A" -> "a"
      [] c = "B" -> "b"
      [] c = "C" -> "c"
      [] OTHER -> c

\* str.lower()
RECURSIVE Lower(_)
Lower(t) ==
    IF t = "" THEN ""
    ELSE LowerChar(SubSeq(t, 1, 1)) \o Lower(SubSeq(t, 2, Len(t)))

\* The truth value of a txt: None and "" are false
Truthy(t) == t # NoneTxt /\ t # ""

(***************************************************************************)
(* Errors (class Error and its subclasses)                                 *)
(***************************************************************************)
\* self._err = None
NoErr == [code |-> "", txt |-> <<>>]

\* CompoundError(code, txt): the description is kept as the words it cites
CompoundError(code, txt) == [code |-> "C" \o code, txt |-> txt]

\* UnknownWordError(code, txt)
UnknownWordError(code, txt) == [code |-> "U" \o code, txt |-> txt]

\* SpellingError(code, txt)
SpellingError(code, txt) == [code |-> "S" \o code, txt |-> txt]

(***************************************************************************)
(* CorrectToken                                                            *)
(***************************************************************************)
\* CorrectToken.__init__
CorrectToken(kind, txt, val) ==
    [kind |-> kind, txt |-> txt, val |-> val, err |-> NoErr]

\* CorrectToken.from_token
from_token(t) == CorrectToken(t.kind, t.txt, t.val)

\* CorrectToken.word
word(txt, val) == CorrectToken("WORD", txt, val)

\* CorrectToken.set_error
set_error(self, err) == [self EXCEPT !.err = err]

\* CorrectToken.copy_error(other), other a CorrectToken
copy_error(self, other) == [self EXCEPT !.err = other.err]

\* CorrectToken.copy_error(other), other a list of CorrectToken: the loop
\* copies from each element in turn and stops at the first error found
RECURSIVE copy_error_list(_, _)
copy_error_list(self, others) ==
    IF others = <<>> THEN self
    ELSE LET s == copy_error(self, Head(others))
         IN IF s.err # NoErr THEN s ELSE copy_error_list(s, Tail(others))

\* The local variable token of parse_errors before its first assignment
Unbound == [kind |-> "UNBOUND", txt |-> NoneTxt, val |-> "None", err |-> NoErr]

\* Python's None where a token is expected
NoneToken == [kind |-> "NONE", txt |-> NoneTxt, val |-> "None", err |-> NoErr]

\* _Correct_TOK.Word
Correct_TOK_Word(w, m, tok) ==
    LET ct == word(w, m)
    IN IF tok # NoneToken THEN copy_error(ct, tok) ELSE ct

\* The truth value of a val: None and an empty list of meanings are false
ValTruthy(v) == v \notin {"None", "empty"}

(***************************************************************************)
(* The correction dictionaries (settings), read-only                       *)
(***************************************************************************)
\* AllowedMultiples.SET
AllowedMultiples == { "b" }

\* WrongCompounds.DICT
WrongCompoundsDICT ==
    [k \in { "ab" } |-> << "a", "b" >>]

\* SplitCompounds.SET; the second and third pair also match a
\* higher-priority rule
SplitCompounds ==
    { << "b", "a" >>,
      << "ab", "b" >>,
      << "a", "a" >> }

\* UniqueErrors.DICT
UniqueErrorsDICT ==
    [k \in { "c" } |-> << "a", "b" >>]

\* ErrorForms.DICT, read through ErrorForms.get_correct_form
ErrorFormsDICT ==
    [k \in { "Ab" } |-> "ab"]

\* Corrector.correct: the best replacement, or the word itself
CorrectorCorrect(txt) == IF txt = "C" THEN "c" ELSE txt

\* The word forms the lexicon knows
Lexicon == { "a", "b" }

\* The meanings the lexicon gives a word: an empty list if it is unknown
Meanings(w) == IF Lower(w) \in Lexicon THEN "meanings" ELSE "empty"

(***************************************************************************)
(* Raw tokens of the underlying tokenizer                                  *)
(***************************************************************************)
RawWord(txt) == [kind |-> "WORD", txt |-> txt, val |-> "None"]

RawTokens ==
    { RawWord("a"), RawWord("A"), RawWord("b"),
      RawWord("Ab"), RawWord("c"), RawWord("C"),
      [kind |-> "UNKNOWN", txt |-> "a", val |-> "None"],
      [kind |-> "NUMBER", txt |-> "1", val |-> "num"],
      [kind |-> "S_BEGIN", txt |-> NoneTxt, val |-> "None"] }

VARIABLES
    input,      \* token_stream: the raw tokens, in order
    pos,        \* how many tokens next(token_stream) has returned
    token,      \* parse_errors: the current token
    out,        \* the tokens parse_errors has yielded
    pc,         \* where the pipeline is
    step,       \* history: the last loop iteration of parse_errors
    cnt,        \* history: how often each rule has fired
    org,        \* history: the input positions the current token stands for
    outOrg,     \* history: the input positions each yielded token stands for
    passes,     \* history: how often parse_errors has been called
    lexed,      \* the token stream after lexicon annotation
    lpos,       \* how many tokens lookup_unknown_words has taken
    out2,       \* the tokens lookup_unknown_words has yielded
    out2Org,    \* history: the position in lexed each of them stands for
    sent,       \* annotate: the sentence, its tokens and its deep tree
    ann,        \* annotate: the annotation list
    apc,        \* annotate: where it is
    ix,         \* annotate: how many tokens the first loop has seen
    nix,        \* annotate: how many tree nodes the walk has entered
    parser,     \* ReynirCorrect._parser: None, or the parser instance
    reducer,    \* ReynirCorrect._reducer: None, or the reducer instance
    lock,       \* ReynirCorrect._lock: None, or the thread that holds it
    grammar,    \* the version of the grammar definition
    tpc,        \* where each thread is in its accesses
    edp,        \* the local edp of each thread in the parser property
    seen,       \* history: the grammar version each thread's check saw
    got,        \* what each thread's accesses have returned
    builds,     \* history: the grammar version of every parser construction
    sentence,   \* eval process(): the elements of the sentence of the corpus
    gcanns,     \* eval process(): s.annotations, what the checker reports
    epc,        \* eval process(): where it is
    ei,         \* eval process(): how many elements the first loop has seen
    ntokens,    \* eval process(): len(tokens)
    errors,     \* eval process(): the list of error dicts
    error_indexes,  \* eval process(): idx to error, as a position in errors
    dependencies,   \* eval process(): the (dep_id, error) pairs to fix up
    di,         \* eval process(): how many dependencies have been fixed up
    buffer,     \* eval process(): the diagnostic lines printed with bprint
    mrg,        \* eval process(): the locals of the merge comparison
    stats       \* eval process(): the list of statistics tuples

tokVars == <<input, pos, token, out, step, cnt, org, outOrg, passes>>
luwVars == <<lexed, lpos, out2, out2Org>>
annVars == <<sent, ann, apc, ix, nix>>
lockVars == <<parser, reducer, lock, grammar, tpc, edp, seen, got, builds>>
evalVars == <<sentence, gcanns, epc, ei, ntokens, errors, error_indexes,
              dependencies, di, buffer, mrg, stats>>
sideVars == <<lockVars, evalVars>>
vars == <<tokVars, luwVars, pc, annVars, sideVars>>

\* How many threads access the parser and the reducer
NumThreads == 2

\* How often the grammar definition is modified
MaxMods == 2

Threads == 1..NumThreads

\* None, as the holder of the lock
None == 0

\* None, as the value of _parser and of a local that holds a parser
NoParser == [id |-> 0, gver |-> 0]

\* None, as the value of _reducer
NoReducer == [of |-> 0]

NoStep == [rule |-> "none", cur |-> Unbound, la |-> Unbound, outLen |-> 0]

\* The token pipeline has not been started
PipelineIdle ==
    /\ input = <<>>
    /\ pos = 0
    /\ token = Unbound
    /\ out = <<>>
    /\ pc = "idle"
    /\ step = NoStep
    /\ cnt = [dup |-> 0, split |-> 0, gain |-> 0, unite |-> 0]
    /\ org = <<0, 0>>
    /\ outOrg = <<>>
    /\ passes = 1
    /\ lexed = <<>>
    /\ lpos = 0
    /\ out2 = <<>>
    /\ out2Org = <<>>

\* annotate has not been called
AnnotateIdle ==
    /\ sent = [tokens |-> <<>>, parsed |-> FALSE, tree |-> <<>>]
    /\ ann = <<>>
    /\ apc = "idle"
    /\ ix = 0
    /\ nix = 0

\* No thread has accessed ReynirCorrect.parser: the class attributes are
\* as the class body leaves them
ParserIdle ==
    /\ parser = NoParser
    /\ reducer = NoReducer
    /\ lock = None
    /\ grammar = 0
    /\ tpc = [t \in Threads |-> "idle"]
    /\ edp = [t \in Threads |-> NoParser]
    /\ seen = [t \in Threads |-> 0]
    /\ got = [t \in Threads |-> [parser |-> NoParser, reducer |-> NoReducer]]
    /\ builds = <<>>

\* The values an idx or depId attribute takes; "" is an absent attribute
IdxValues == {"1", "2"}

\* The locals of the merge comparison before it starts: the positions of x
\* and y in their lists and the counters
NoMerge ==
    [gi |-> 0, ii |-> 0, tp |-> 0, fp |-> 0, fn |-> 0,
     right_corr |-> 0, wrong_corr |-> 0, right_span |-> 0, wrong_span |-> 0]

\* The locals of process() as a sentence starts
EvalStart ==
    /\ ei = 0
    /\ ntokens = 0
    /\ errors = <<>>
    /\ error_indexes = [k \in IdxValues |-> 0]
    /\ dependencies = <<>>
    /\ di = 0
    /\ buffer = <<>>
    /\ mrg = NoMerge
    /\ stats = <<>>

\* The evaluator is not running
EvalIdle ==
    /\ sentence = <<>>
    /\ gcanns = <<>>
    /\ epc = "idle"
    /\ EvalStart

\* Neither the parser property nor the evaluator is in use
SideIdle == ParserIdle /\ EvalIdle

\* The pipeline is handed a raw token stream
Init ==
    /\ AnnotateIdle
    /\ SideIdle
    /\ \E k \in 0..MaxLen : input \in [1..k -> RawTokens]
    /\ pos = 0
    /\ token = Unbound
    /\ out = <<>>
    /\ pc = "pe_start"
    /\ step = NoStep
    /\ cnt = [dup |-> 0, split |-> 0, gain |-> 0, unite |-> 0]
    /\ org = <<0, 0>>
    /\ outOrg = <<>>
    /\ passes = 1
    /\ lexed = <<>>
    /\ lpos = 0
    /\ out2 = <<>>
    /\ out2Org = <<>>

(***************************************************************************)
(* parse_errors                                                            *)
(***************************************************************************)
\* Word duplication: the condition of the first if
DupCond(cur, la) ==
    /\ Truthy(cur.txt)
    /\ Truthy(la.txt)
    /\ Lower(cur.txt) = Lower(la.txt)
    /\ Lower(cur.txt) \notin AllowedMultiples
    /\ cur.kind = "WORD"

\* Splitting wrongly compounded words: the condition of the second if
WrongCond(cur) ==
    /\ Truthy(cur.txt)
    /\ Lower(cur.txt) \in DOMAIN WrongCompoundsDICT

\* Unite wrongly split compounds: the condition of the third if
UniteCond(cur, la) ==
    /\ cur.txt # NoneTxt
    /\ la.txt # NoneTxt
    /\ <<Lower(cur.txt), Lower(la.txt)>> \in SplitCompounds

\* Rule with the second if tried before the first
RuleSplitFirst(cur, la) ==
    IF WrongCond(cur) THEN "split"
    ELSE IF DupCond(cur, la) THEN "dup"
    ELSE IF UniteCond(cur, la) THEN "unite"
    ELSE "pass"

\* The branch one loop iteration takes: each if ends in continue
Rule(cur, la) ==
    IF DupCond(cur, la) THEN "dup"
    ELSE IF WrongCond(cur) THEN "split"
    ELSE IF UniteCond(cur, la) THEN "unite"
    ELSE "pass"

\* The token that stands for a duplicated pair
DupToken(cur) ==
    set_error(word(cur.txt, "None"), CompoundError("001", <<cur.txt>>))

\* The tokens a wrongly compounded word is split into
SplitTokens(cur) ==
    LET parts == WrongCompoundsDICT[Lower(cur.txt)]
    IN [i \in DOMAIN parts |->
            set_error(word(parts[i], "None"), CompoundError("002", <<cur.txt>>))]

\* UniteToken that keeps the text of the first word only
UniteTokenKeepsFirst(cur, la) ==
    set_error(word(cur.txt, "None"),
              CompoundError("003", <<cur.txt, la.txt>>))

\* The token two wrongly split words are united into
UniteToken(cur, la) ==
    set_error(word(cur.txt \o la.txt, "None"),
              CompoundError("003", <<cur.txt, la.txt>>))

\* token = get() on a stream that has a token
GetFirst ==
    /\ pc = "pe_start"
    /\ Len(input) > 0
    /\ token' = from_token(input[1])
    /\ pos' = 1
    /\ org' = <<1, 1>>
    /\ pc' = "pe_loop"
    /\ UNCHANGED <<input, out, step, cnt, outOrg, passes, luwVars>>
    /\ UNCHANGED <<annVars, sideVars>>

\* token = get() on an empty stream: StopIteration is caught, and the
\* handler's "if token" reads a local that was never assigned
EmptyStream ==
    /\ pc = "pe_start"
    /\ Len(input) = 0
    /\ pc' = "pe_raised"
    /\ UNCHANGED <<tokVars, luwVars>>
    /\ UNCHANGED <<annVars, sideVars>>

\* Duplicate that does not take the lookahead off the stream
DuplicateRereads ==
    /\ pc = "pe_loop"
    /\ pos < Len(input)
    /\ LET la == from_token(input[pos + 1])
       IN /\ Rule(token, la) = "dup"
          /\ token' = DupToken(token)
          /\ step' = [rule |-> "dup", cur |-> token, la |-> la, outLen |-> Len(out)]
    /\ org' = <<org[1], pos + 1>>
    /\ cnt' = [cnt EXCEPT !.dup = @ + 1]
    /\ UNCHANGED <<input, pos, out, pc, outOrg, passes, luwVars>>
    /\ UNCHANGED <<annVars, sideVars>>

\* Duplicate that keeps the second word of the pair
DuplicateKeepsLookahead ==
    /\ pc = "pe_loop"
    /\ pos < Len(input)
    /\ LET la == from_token(input[pos + 1])
       IN /\ Rule(token, la) = "dup"
          /\ token' = DupToken(la)
          /\ step' = [rule |-> "dup", cur |-> token, la |-> la, outLen |-> Len(out)]
    /\ pos' = pos + 1
    /\ org' = <<org[1], pos + 1>>
    /\ cnt' = [cnt EXCEPT !.dup = @ + 1]
    /\ UNCHANGED <<input, out, pc, outOrg, passes, luwVars>>
    /\ UNCHANGED <<annVars, sideVars>>

\* One loop iteration that removes a duplicated word
Duplicate ==
    /\ pc = "pe_loop"
    /\ pos < Len(input)
    /\ LET la == from_token(input[pos + 1])
       IN /\ Rule(token, la) = "dup"
          /\ token' = DupToken(token)
          /\ step' = [rule |-> "dup", cur |-> token, la |-> la, outLen |-> Len(out)]
    /\ pos' = pos + 1
    /\ org' = <<org[1], pos + 1>>
    /\ cnt' = [cnt EXCEPT !.dup = @ + 1]
    /\ UNCHANGED <<input, out, pc, outOrg, passes, luwVars>>
    /\ UNCHANGED <<annVars, sideVars>>

\* One loop iteration that splits a wrongly compounded word
SplitWrongCompound ==
    /\ pc = "pe_loop"
    /\ pos < Len(input)
    /\ LET la == from_token(input[pos + 1])
           new == SplitTokens(token)
       IN /\ Rule(token, la) = "split"
          /\ out' = out \o new
          /\ outOrg' = outOrg \o [i \in DOMAIN new |-> org]
          /\ token' = la
          /\ step' = [rule |-> "split", cur |-> token, la |-> la, outLen |-> Len(out)]
          /\ cnt' = [cnt EXCEPT !.split = @ + 1, !.gain = @ + Len(new) - 1]
    /\ pos' = pos + 1
    /\ org' = <<pos + 1, pos + 1>>
    /\ UNCHANGED <<input, pc, passes, luwVars>>
    /\ UNCHANGED <<annVars, sideVars>>

\* One loop iteration that unites two wrongly split words
UniteSplitCompound ==
    /\ pc = "pe_loop"
    /\ pos < Len(input)
    /\ LET la == from_token(input[pos + 1])
       IN /\ Rule(token, la) = "unite"
          /\ token' = UniteToken(token, la)
          /\ step' = [rule |-> "unite", cur |-> token, la |-> la, outLen |-> Len(out)]
    /\ pos' = pos + 1
    /\ org' = <<org[1], pos + 1>>
    /\ cnt' = [cnt EXCEPT !.unite = @ + 1]
    /\ UNCHANGED <<input, out, pc, outOrg, passes, luwVars>>
    /\ UNCHANGED <<annVars, sideVars>>

\* PassThrough that yields the lookahead and keeps the current token
PassThroughSwapped ==
    /\ pc = "pe_loop"
    /\ pos < Len(input)
    /\ LET la == from_token(input[pos + 1])
       IN /\ Rule(token, la) = "pass"
          /\ out' = Append(out, la)
          /\ outOrg' = Append(outOrg, <<pos + 1, pos + 1>>)
          /\ step' = [rule |-> "pass", cur |-> token, la |-> la, outLen |-> Len(out)]
    /\ pos' = pos + 1
    /\ UNCHANGED <<input, token, org, pc, cnt, passes, luwVars>>
    /\ UNCHANGED <<annVars, sideVars>>

\* One loop iteration in which no rule matches
PassThrough ==
    /\ pc = "pe_loop"
    /\ pos < Len(input)
    /\ LET la == from_token(input[pos + 1])
       IN /\ Rule(token, la) = "pass"
          /\ out' = Append(out, token)
          /\ outOrg' = Append(outOrg, org)
          /\ token' = la
          /\ step' = [rule |-> "pass", cur |-> token, la |-> la, outLen |-> Len(out)]
    /\ pos' = pos + 1
    /\ org' = <<pos + 1, pos + 1>>
    /\ UNCHANGED <<input, pc, cnt, passes, luwVars>>
    /\ UNCHANGED <<annVars, sideVars>>

\* StreamExhausted without the handler's yield
StreamExhaustedDropsFinal ==
    /\ pc = "pe_loop"
    /\ pos = Len(input)
    /\ pc' = "pe_done"
    /\ UNCHANGED <<input, pos, token, out, step, cnt, org, outOrg, passes, luwVars>>
    /\ UNCHANGED <<annVars, sideVars>>

\* next_token = get() raises StopIteration: the handler yields the final token
StreamExhausted ==
    /\ pc = "pe_loop"
    /\ pos = Len(input)
    /\ out' = Append(out, token)
    /\ outOrg' = Append(outOrg, org)
    /\ pc' = "pe_done"
    /\ UNCHANGED <<input, pos, token, step, cnt, org, passes, luwVars>>
    /\ UNCHANGED <<annVars, sideVars>>

\* parse_errors is called again, on the tokens it has yielded
Rerun ==
    /\ pc = "pe_done"
    /\ passes < MaxPasses
    /\ input' = out
    /\ pos' = 0
    /\ token' = Unbound
    /\ out' = <<>>
    /\ step' = NoStep
    /\ cnt' = [dup |-> 0, split |-> 0, gain |-> 0, unite |-> 0]
    /\ org' = <<0, 0>>
    /\ outOrg' = <<>>
    /\ passes' = passes + 1
    /\ pc' = "pe_start"
    /\ UNCHANGED luwVars
    /\ UNCHANGED <<annVars, sideVars>>

(***************************************************************************)
(* Lexicon annotation between the two phases                               *)
(***************************************************************************)
\* Every word token is rebuilt with its meanings by the token constructor,
\* in reference to the token it replaces
LexiconAnnotate ==
    /\ pc = "pe_done"
    /\ lexed' = [i \in DOMAIN out |->
                    IF out[i].kind = "WORD"
                    THEN Correct_TOK_Word(out[i].txt, Meanings(out[i].txt), out[i])
                    ELSE out[i]]
    /\ lpos' = 0
    /\ out2' = <<>>
    /\ out2Org' = <<>>
    /\ pc' = "luw_loop"
    /\ UNCHANGED tokVars
    /\ UNCHANGED <<annVars, sideVars>>

(***************************************************************************)
(* lookup_unknown_words                                                    *)
(***************************************************************************)
\* Unannotated without the test for the kind of the token
UnannotatedAnyKind(t) == ~ValTruthy(t.val)

\* The condition of the if: a word that has not been annotated
Unannotated(t) == t.kind = "WORD" /\ ~ValTruthy(t.val)

\* errkind after the if / elif / else chain
ErrKind(txt) ==
    IF txt \in DOMAIN UniqueErrorsDICT THEN 1
    ELSE IF txt \in DOMAIN ErrorFormsDICT THEN 3
    ELSE IF CorrectorCorrect(txt) # txt THEN 2
    ELSE 0

\* corrected after the if / elif / else chain, for errkind != 0: the words
\* that replace the token
Corrected(txt) ==
    IF txt \in DOMAIN UniqueErrorsDICT THEN UniqueErrorsDICT[txt]
    ELSE IF txt \in DOMAIN ErrorFormsDICT THEN <<ErrorFormsDICT[txt]>>
    ELSE <<CorrectorCorrect(txt)>>

\* UnknownToken that builds a new word token instead of marking the token
UnknownTokenRebuilt(t) ==
    set_error(word(t.txt, "None"), UnknownWordError("001", <<t.txt>>))

\* The token that is marked as an unknown word
UnknownToken(t) == set_error(t, UnknownWordError("001", <<t.txt>>))

\* A token that is no unannotated word is yielded as it is
LUW_Yield ==
    /\ pc = "luw_loop"
    /\ lpos < Len(lexed)
    /\ ~Unannotated(lexed[lpos + 1])
    /\ out2' = Append(out2, lexed[lpos + 1])
    /\ out2Org' = Append(out2Org, lpos + 1)
    /\ lpos' = lpos + 1
    /\ UNCHANGED <<tokVars, lexed, pc>>
    /\ UNCHANGED <<annVars, sideVars>>

\* errkind != 0: the loop over the corrected words starts with
\* db.lookup_word, and the module binds no name db
LUW_Correct ==
    /\ pc = "luw_loop"
    /\ lpos < Len(lexed)
    /\ Unannotated(lexed[lpos + 1])
    /\ ErrKind(lexed[lpos + 1].txt) # 0
    /\ lpos' = lpos + 1
    /\ pc' = "luw_raised"
    /\ UNCHANGED <<tokVars, lexed, out2, out2Org>>
    /\ UNCHANGED <<annVars, sideVars>>

\* errkind == 0: the token is marked as an unknown word and yielded
LUW_MarkUnknown ==
    /\ pc = "luw_loop"
    /\ lpos < Len(lexed)
    /\ Unannotated(lexed[lpos + 1])
    /\ ErrKind(lexed[lpos + 1].txt) = 0
    /\ out2' = Append(out2, UnknownToken(lexed[lpos + 1]))
    /\ out2Org' = Append(out2Org, lpos + 1)
    /\ lpos' = lpos + 1
    /\ UNCHANGED <<tokVars, lexed, pc>>
    /\ UNCHANGED <<annVars, sideVars>>

\* The for loop ends with the stream
LUW_Exhausted ==
    /\ pc = "luw_loop"
    /\ lpos = Len(lexed)
    /\ pc' = "luw_done"
    /\ UNCHANGED <<tokVars, luwVars>>
    /\ UNCHANGED <<annVars, sideVars>>

Next ==
    \/ GetFirst
    \/ EmptyStream
    \/ Duplicate
    \/ SplitWrongCompound
    \/ UniteSplitCompound
    \/ PassThrough
    \/ StreamExhausted
    \/ Rerun
    \/ LexiconAnnotate
    \/ LUW_Yield
    \/ LUW_Correct
    \/ LUW_MarkUnknown
    \/ LUW_Exhausted

Spec == Init /\ [][Next]_vars

(***************************************************************************)
(* The annotation assembler: ReynirCorrect.annotate and ErrorFinder        *)
(***************************************************************************)
\* The most tokens a sentence has
MaxTokens == 2

\* The most nodes a deep tree has
MaxNodes == 2

\* Annotation.__init__
Annotation(start, end, code, text) ==
    [start |-> start, end |-> end, code |-> code, text |-> text]

\* A formatted text: the format string and its arguments
Format(tmpl, args) == [tmpl |-> tmpl, args |-> args]

\* The tokens of a sentence as annotate reads them. error_span = 0 stands
\* for a token that has no attribute error_span, as CorrectToken has none
SentTokens ==
    { [txt |-> "a", has_error_code |-> FALSE, error_code |-> "",
       error_description |-> "", error_span |-> 0],
      [txt |-> "a", has_error_code |-> TRUE, error_code |-> "",
       error_description |-> "", error_span |-> 0],
      [txt |-> "b", has_error_code |-> TRUE, error_code |-> "C001",
       error_description |-> "b", error_span |-> 0],
      [txt |-> "b", has_error_code |-> TRUE, error_code |-> "S001",
       error_description |-> "b", error_span |-> 1],
      [txt |-> "c", has_error_code |-> TRUE, error_code |-> "S002",
       error_description |-> "c", error_span |-> 2] }

\* The token spans a tree node of a sentence of n tokens may cover
Spans(n) == { <<0, n - 1>>, <<0, 0>>, <<n - 1, n - 1>> }

\* No subject constituent
NoSpan == <<-1, -1>>

\* A nonterminal node: its nonterminal's name, tag and optionality, whether
\* the node is interior, and the indices of its first and last token
NonterminalNode(name, tagged, optional, interior, span) ==
    [nt |-> TRUE, name |-> name, tag_error |-> tagged,
     is_optional |-> optional, is_interior |-> interior,
     first |-> span[1], last |-> span[2],
     category |-> "", is_subj |-> FALSE, variants |-> <<>>, lemma |-> "",
     vp |-> FALSE, vp_subj |-> NoSpan, ip |-> FALSE, ip_subj |-> NoSpan]

\* A terminal node: its terminal's category and variants, the lemma of its
\* token, whether a verb phrase and an inflected phrase enclose it and
\* their subject constituents' spans, and its token index
TerminalNode(category, is_subj, variants, lemma, vp, vp_subj, ip, ip_subj, index) ==
    [nt |-> FALSE, name |-> "", tag_error |-> FALSE,
     is_optional |-> FALSE, is_interior |-> FALSE,
     first |-> index, last |-> index,
     category |-> category, is_subj |-> is_subj, variants |-> variants,
     lemma |-> lemma,
     vp |-> vp, vp_subj |-> vp_subj, ip |-> ip, ip_subj |-> ip_subj]

\* The nodes a deep tree of a sentence of n tokens is built from
Nodes(n) ==
    { NonterminalNode(nm, TRUE, FALSE, FALSE, sp) :
          nm \in {"VillaAd", "VillaNafn_et_kk"}, sp \in Spans(n) }
    \cup { NonterminalNode("VillaHeldur", TRUE, FALSE, TRUE, <<0, n - 1>>),
           NonterminalNode("VillaEinnAf", TRUE, TRUE, FALSE, <<0, 0>>),
           NonterminalNode("Nl", FALSE, FALSE, FALSE, <<0, n - 1>>),
           NonterminalNode("Aukasetning_villa", TRUE, FALSE, FALSE, <<0, n - 1>>),
           NonterminalNode("VillaHeldur_et", TRUE, FALSE, FALSE, <<0, n - 1>>) }
    \cup { TerminalNode("so", TRUE, <<"subj", "op", "thgf">>, "langa",
                        TRUE, <<0, n - 1>>, FALSE, NoSpan, n - 1),
           TerminalNode("so", TRUE, <<"subj", "op", "thgf">>, "langa",
                        TRUE, NoSpan, TRUE, <<0, 0>>, n - 1),
           TerminalNode("so", TRUE, <<"subj", "op", "thgf">>, "langa",
                        FALSE, NoSpan, TRUE, NoSpan, 0),
           TerminalNode("so", TRUE, <<"subj", "op", "nf">>, "langa",
                        TRUE, <<0, 0>>, TRUE, <<0, n - 1>>, n - 1),
           TerminalNode("so", TRUE, <<"subj", "op", "thf">>, "langa",
                        TRUE, <<0, 0>>, FALSE, NoSpan, n - 1),
           TerminalNode("no", FALSE, <<"et", "nf">>, "madur",
                        FALSE, NoSpan, FALSE, NoSpan, 0) }

\* annotate is called with a sentence: any tokens, and either no deep tree
\* or, if the sentence has a token, a deep tree of some nodes
InitAnnotate ==
    /\ PipelineIdle
    /\ SideIdle
    /\ \E k \in 0..MaxTokens :
         \E toks \in [1..k -> SentTokens] :
            \/ sent = [tokens |-> toks, parsed |-> FALSE, tree |-> <<>>]
            \/ /\ k >= 1
               /\ \E m \in 1..MaxNodes :
                    \E tr \in [1..m -> Nodes(k)] :
                       sent = [tokens |-> toks, parsed |-> TRUE, tree |-> tr]
    /\ ann = <<>>
    /\ apc = "scan"
    /\ ix = 0
    /\ nix = 0

\* KeyLE without the minus sign of the key
KeyLEAscendingEnd(a, b) ==
    \/ a.start < b.start
    \/ a.start = b.start /\ a.end <= b.end

\* The key of the final sort: (a.start, -a.end)
KeyLE(a, b) ==
    \/ a.start < b.start
    \/ a.start = b.start /\ (0 - a.end) <= (0 - b.end)

\* One insertion of a stable sort: a goes behind every element whose key
\* is not greater than its own
RECURSIVE Insert(_, _)
Insert(a, sorted) ==
    IF sorted = <<>> THEN <<a>>
    ELSE IF KeyLE(sorted[Len(sorted)], a) THEN Append(sorted, a)
    ELSE Append(Insert(a, SubSeq(sorted, 1, Len(sorted) - 1)), sorted[Len(sorted)])

\* ann.sort(key=lambda a: (a.start, -a.end)): the sort is stable
RECURSIVE SortAnn(_)
SortAnn(list) ==
    IF list = <<>> THEN <<>>
    ELSE Insert(list[Len(list)], SortAnn(SubSeq(list, 1, Len(list) - 1)))

\* The condition under which a token contributes an annotation
HasError(t) == t.has_error_code /\ t.error_code # ""

\* The first loop of annotate takes a token that carries no error
ScanSkip ==
    /\ apc = "scan"
    /\ ix < Len(sent.tokens)
    /\ ~HasError(sent.tokens[ix + 1])
    /\ ix' = ix + 1
    /\ UNCHANGED <<sent, ann, apc, nix>>
    /\ UNCHANGED <<tokVars, luwVars, pc, sideVars>>

\* ScanError that takes the error off the token it has annotated
ScanErrorConsumes ==
    /\ apc = "scan"
    /\ ix < Len(sent.tokens)
    /\ LET t == sent.tokens[ix + 1]
       IN /\ HasError(t)
          /\ t.error_span # 0
          /\ ann' = Append(ann, Annotation(ix, ix + t.error_span - 1,
                                           t.error_code,
                                           Format("{0}", <<t.error_description>>)))
          /\ sent' = [sent EXCEPT !.tokens[ix + 1].error_code = ""]
    /\ ix' = ix + 1
    /\ UNCHANGED <<apc, nix>>
    /\ UNCHANGED <<tokVars, luwVars, pc, sideVars>>

\* The first loop of annotate takes a token that carries an error
ScanError ==
    /\ apc = "scan"
    /\ ix < Len(sent.tokens)
    /\ LET t == sent.tokens[ix + 1]
       IN /\ HasError(t)
          /\ t.error_span # 0
          /\ ann' = Append(ann, Annotation(ix, ix + t.error_span - 1,
                                           t.error_code,
                                           Format("{0}", <<t.error_description>>)))
    /\ ix' = ix + 1
    /\ UNCHANGED <<sent, apc, nix>>
    /\ UNCHANGED <<tokVars, luwVars, pc, sideVars>>

\* The first loop of annotate takes a token that carries an error and has
\* no attribute error_span: t.error_span raises AttributeError
ScanRaise ==
    /\ apc = "scan"
    /\ ix < Len(sent.tokens)
    /\ LET t == sent.tokens[ix + 1]
       IN /\ HasError(t)
          /\ t.error_span = 0
    /\ apc' = "raised"
    /\ UNCHANGED <<sent, ann, ix, nix>>
    /\ UNCHANGED <<tokVars, luwVars, pc, sideVars>>

\* The first loop of annotate has ended
ScanDone == apc = "scan" /\ ix = Len(sent.tokens)

\* Unparsable with len(sent.tokens) as the end
UnparsableToLen(n) ==
    Annotation(0, n, "E001", Format("Malsgreinin fellur ekki ad reglum", <<>>))

\* E001: the annotation of a sentence that has no deep tree
Unparsable(n) ==
    Annotation(0, n - 1, "E001", Format("Malsgreinin fellur ekki ad reglum", <<>>))

\* sent.deep_tree is None: the sentence is annotated as a whole, the list
\* is sorted and returned
AnnotateUnparsed ==
    /\ ScanDone
    /\ ~sent.parsed
    /\ ann' = SortAnn(Append(ann, Unparsable(Len(sent.tokens))))
    /\ apc' = "returned"
    /\ UNCHANGED <<sent, ix, nix>>
    /\ UNCHANGED <<tokVars, luwVars, pc, sideVars>>

(***************************************************************************)
(* ErrorFinder                                                             *)
(***************************************************************************)
\* ErrorFinder._CASE_NAMES
CASE_NAMES ==
    [c \in {"nf", "thf", "thgf", "ef"} |->
        CASE c = "nf" -> "nefni"
          [] c = "thf" -> "thol"
          [] c = "thgf" -> "thagu"
          [] c = "ef" -> "eignar"]

\* ErrorFinder._TEXT_FUNC: for a base name, the format string its function
\* fills in with the text of the span
TEXT_FUNC ==
    [name \in { "VillaHeldur", "VillaVistAd", "VillaFraThviAd", "VillaAnnadhvort",
                "VillaAnnadHvort", "VillaFjoldiHluti", "VillaEinnAf", "VillaAd",
                "VillaThoAd" } |->
        CASE name = "VillaHeldur" -> "'{0}' er ofaukid"
          [] name = "VillaVistAd" -> "'{0}' a sennilega ad vera 'fyrst ad'"
          [] name = "VillaFraThviAd" -> "'{0}' a sennilega ad vera '{0} ad'"
          [] name = "VillaAnnadhvort" -> "I stad '{0}' a ad standa 'annad hvort'"
          [] name = "VillaAnnadHvort" -> "I stad '{0}' a ad standa 'annadhvort'"
          [] name = "VillaFjoldiHluti" ->
                "Sogn sem a vid '{0}' a ad vera i eintolu, ekki fleirtolu"
          [] name = "VillaEinnAf" ->
                "Sogn sem a vid '{0}' a ad vera i eintolu, ekki fleirtolu"
          [] name = "VillaAd" -> "'{0}' er sennilega ofaukid"
          [] name = "VillaThoAd" -> "'{0}' a sennilega ad vera '{0} ad' (eda 'thott')"]

\* text_func(span_text, variants): each function formats its string with
\* the text and makes no use of the variants
text_func(name, txt, variants) == Format(TEXT_FUNC[name], <<txt>>)

\* VerbSubjects.VERBS_ERRORS: for a verb, the subject cases it is wrongly
\* used with and the correct case for each
VERBS_ERRORS ==
    [v \in {"langa"} |-> [c \in {"nf", "thgf"} |-> "thf"]]

\* name.index("_"), counted from 1; 0 if "_" is not in name
RECURSIVE IndexOf(_, _, _)
IndexOf(name, ch, from) ==
    IF from > Len(name) THEN 0
    ELSE IF SubSeq(name, from, from) = ch THEN from
    ELSE IndexOf(name, ch, from + 1)

\* " ".join(t.txt for t in tokens if t.txt)
RECURSIVE JoinTxt(_)
JoinTxt(toks) ==
    IF toks = <<>> THEN ""
    ELSE LET rest == JoinTxt(Tail(toks))
         IN IF ~Truthy(Head(toks).txt) THEN rest
            ELSE IF rest = "" THEN Head(toks).txt
            ELSE Head(toks).txt \o " " \o rest

\* ErrorFinder._node_span
node_span(node) == <<node.first, node.last>>

\* NonterminalAnn whose default text names the base name
NonterminalAnnBaseName(node, tokens) ==
    IF node.is_interior \/ node.is_optional THEN <<>>
    ELSE IF node.tag_error THEN
        LET start == node_span(node)[1]
            end == node_span(node)[2]
            span_text == JoinTxt(SubSeq(tokens, start + 1, end + 1))
            us == IndexOf(node.name, "_", 1)
            name == IF us > 0 THEN SubSeq(node.name, 1, us - 1) ELSE node.name
            code == "P_NT_" \o (IF Len(name) >= 5 /\ SubSeq(name, 1, 5) = "Villa"
                                THEN SubSeq(name, 6, Len(name)) ELSE name)
        IN <<Annotation(start, end, code,
                        IF name \in DOMAIN TEXT_FUNC
                        THEN text_func(name, span_text, "")
                        ELSE Format("'{0}' er liklega rangt (regla {1})",
                                    <<span_text, name>>))>>
    ELSE <<>>

\* NonterminalAnn without the test for interior nodes
NonterminalAnnInterior(node, tokens) ==
    IF node.is_optional THEN <<>>
    ELSE IF node.tag_error THEN
        <<Annotation(node_span(node)[1], node_span(node)[2],
                     "P_NT_" \o node.name,
                     Format("'{0}' er liklega rangt (regla {1})",
                            <<JoinTxt(SubSeq(tokens, node_span(node)[1] + 1,
                                             node_span(node)[2] + 1)),
                              node.name>>))>>
    ELSE <<>>

\* NonterminalAnn that does not cut the variants off the name
NonterminalAnnFullName(node, tokens) ==
    IF node.is_interior \/ node.is_optional THEN <<>>
    ELSE IF node.tag_error THEN
        LET name == node.name
            code == "P_NT_" \o (IF Len(name) >= 5 /\ SubSeq(name, 1, 5) = "Villa"
                                THEN SubSeq(name, 6, Len(name)) ELSE name)
        IN <<Annotation(node_span(node)[1], node_span(node)[2], code,
                        Format("'{0}' er liklega rangt (regla {1})",
                               <<JoinTxt(SubSeq(tokens, node_span(node)[1] + 1,
                                                node_span(node)[2] + 1)),
                                 name>>))>>
    ELSE <<>>

\* The annotations _visit_nonterminal appends for a node
NonterminalAnn(node, tokens) ==
    IF node.is_interior \/ node.is_optional THEN <<>>
    ELSE IF node.tag_error THEN
        LET start == node_span(node)[1]
            end == node_span(node)[2]
            span_text == JoinTxt(SubSeq(tokens, start + 1, end + 1))
            full == node.name
            us == IndexOf(full, "_", 1)
            variants == IF us > 0 THEN SubSeq(full, us + 1, Len(full)) ELSE ""
            name == IF us > 0 THEN SubSeq(full, 1, us - 1) ELSE full
            code == "P_NT_" \o (IF Len(name) >= 5 /\ SubSeq(name, 1, 5) = "Villa"
                                THEN SubSeq(name, 6, Len(name)) ELSE name)
            ann_text == IF name \in DOMAIN TEXT_FUNC
                        THEN text_func(name, span_text, variants)
                        ELSE Format("'{0}' er liklega rangt (regla {1})",
                                    <<span_text, full>>)
        IN <<Annotation(start, end, code, ann_text)>>
    ELSE <<>>

\* The condition of the if of _visit_token: an impersonal or
\* subject-checked verb terminal that requires a subject
SubjVerb(node) ==
    /\ node.category = "so"
    /\ node.is_subj
    /\ \E i \in DOMAIN node.variants : node.variants[i] \in {"op", "subj"}

\* TokenAnn that looks for the subject in the inflected phrase first
TokenAnnIPFirst(node) ==
    IF /\ SubjVerb(node)
       /\ node.lemma \in DOMAIN VERBS_ERRORS
       /\ node.variants[Len(node.variants)] \in DOMAIN VERBS_ERRORS[node.lemma]
    THEN
        LET abbr == node.variants[Len(node.variants)]
            correct == VERBS_ERRORS[node.lemma][abbr]
            in_ip == IF node.ip THEN node.ip_subj ELSE NoSpan
            subj == IF in_ip # NoSpan THEN in_ip
                    ELSE IF node.vp THEN node.vp_subj ELSE NoSpan
            code == "P_WRONG_CASE_" \o abbr \o "_" \o correct
            text == Format("Frumlag sagnarinnar 'ad {0}' a ad vera i {1}falli en ekki i {2}falli",
                           <<node.lemma, CASE_NAMES[correct], CASE_NAMES[abbr]>>)
        IN IF subj # NoSpan
           THEN <<Annotation(subj[1], subj[2], code, text)>>
           ELSE <<Annotation(node.last, node.last, code, text)>>
    ELSE <<>>

\* The annotations _visit_token appends for a node
TokenAnn(node) ==
    IF SubjVerb(node)
    THEN
        LET verb == node.lemma
            subj_case_abbr == node.variants[Len(node.variants)]
            known == verb \in DOMAIN VERBS_ERRORS
        IN IF known /\ subj_case_abbr \in DOMAIN VERBS_ERRORS[verb] THEN
               LET wrong_case == CASE_NAMES[subj_case_abbr]
                   correct_case_abbr == VERBS_ERRORS[verb][subj_case_abbr]
                   correct_case == CASE_NAMES[correct_case_abbr]
                   in_vp == IF node.vp THEN node.vp_subj ELSE NoSpan
                   subj == IF in_vp # NoSpan THEN in_vp
                           ELSE IF node.ip THEN node.ip_subj ELSE NoSpan
                   code == "P_WRONG_CASE_" \o subj_case_abbr \o "_" \o correct_case_abbr
                   text == Format("Frumlag sagnarinnar 'ad {0}' a ad vera i {1}falli en ekki i {2}falli",
                                  <<verb, correct_case, wrong_case>>)
               IN IF subj # NoSpan
                  THEN <<Annotation(subj[1], subj[2], code, text)>>
                  ELSE <<Annotation(node.last, node.last, code, text)>>
           ELSE <<>>
    ELSE <<>>

\* The walk of ErrorFinder has entered every node of the deep tree
WalkDone == ScanDone /\ sent.parsed /\ nix = Len(sent.tree)

\* The walk enters a nonterminal node
VisitNonterminal ==
    /\ ScanDone
    /\ sent.parsed
    /\ nix < Len(sent.tree)
    /\ sent.tree[nix + 1].nt
    /\ ann' = ann \o NonterminalAnn(sent.tree[nix + 1], sent.tokens)
    /\ nix' = nix + 1
    /\ UNCHANGED <<sent, apc, ix>>
    /\ UNCHANGED <<tokVars, luwVars, pc, sideVars>>

\* The walk enters a terminal node
VisitToken ==
    /\ ScanDone
    /\ sent.parsed
    /\ nix < Len(sent.tree)
    /\ ~sent.tree[nix + 1].nt
    /\ ann' = ann \o TokenAnn(sent.tree[nix + 1])
    /\ nix' = nix + 1
    /\ UNCHANGED <<sent, apc, ix>>
    /\ UNCHANGED <<tokVars, luwVars, pc, sideVars>>

\* AnnotateParsed without the else: the E001 annotation is appended too
AnnotateParsedFallback ==
    /\ WalkDone
    /\ ann' = SortAnn(Append(ann, Unparsable(Len(sent.tokens))))
    /\ apc' = "returned"
    /\ UNCHANGED <<sent, ix, nix>>
    /\ UNCHANGED <<tokVars, luwVars, pc, sideVars>>

\* The walk is over: the list is sorted and returned
AnnotateParsed ==
    /\ WalkDone
    /\ ann' = SortAnn(ann)
    /\ apc' = "returned"
    /\ UNCHANGED <<sent, ix, nix>>
    /\ UNCHANGED <<tokVars, luwVars, pc, sideVars>>

NextAnnotate ==
    \/ ScanSkip
    \/ ScanError
    \/ ScanRaise
    \/ AnnotateUnparsed
    \/ VisitNonterminal
    \/ VisitToken
    \/ AnnotateParsed

SpecAnnotate == InitAnnotate /\ [][NextAnnotate]_vars

(***************************************************************************)
(* Properties of the Token Correction Phase (parse_errors)                 *)
(***************************************************************************)
\* parse_errors has returned or raised
PEFinished == pc \notin {"pe_start", "pe_loop"}

\* parse_errors stands right after a loop iteration
AfterStep == pc = "pe_loop" /\ step.rule # "none"

\* C3: the number of tokens parse_errors emits is the number of input tokens,
\* minus one per duplicate removal, plus (replacement length - 1) per
\* wrong-compound split, minus one per compound union; while it runs, the
\* tokens emitted plus the one buffered account for every token read.
C3_TokenCount ==
    /\ PEFinished =>
          Len(out) = Len(input) - cnt.dup + cnt.gain - cnt.unite
    /\ pc = "pe_loop" =>
          Len(out) + 1 = pos - cnt.dup + cnt.gain - cnt.unite

\* C3 witness: a finished run in which a duplicate was removed and a
\* wrong compound was split
C3_Witness ==
    /\ pc = "pe_done"
    /\ cnt.dup >= 1
    /\ cnt.gain >= 1
    /\ Len(out) = Len(input) - cnt.dup + cnt.gain - cnt.unite

\* C5: each loop iteration applies exactly one rule, the first in the order
\* duplicate, wrong-compound split, split-compound union, pass-through
\* whose condition holds for the (current, lookahead) pair, and has the
\* effect of that rule alone.
C5_RulePriority ==
    step.rule # "none" =>
        LET d == DupCond(step.cur, step.la)
            w == WrongCond(step.cur)
            u == UniteCond(step.cur, step.la)
        IN /\ (step.rule = "dup") <=> d
           /\ (step.rule = "split") <=> (~d /\ w)
           /\ (step.rule = "unite") <=> (~d /\ ~w /\ u)
           /\ (step.rule = "pass") <=> (~d /\ ~w /\ ~u)
           /\ (pc = "pe_loop" /\ step.rule = "dup") =>
                 /\ token.err.code = "C001"
                 /\ Len(out) = step.outLen
           /\ (pc = "pe_loop" /\ step.rule = "split") =>
                 /\ token = step.la
                 /\ Len(out) > step.outLen
                 /\ \A i \in (step.outLen + 1)..Len(out) : out[i].err.code = "C002"
           /\ (pc = "pe_loop" /\ step.rule = "unite") =>
                 /\ token.err.code = "C003"
                 /\ Len(out) = step.outLen
           /\ (pc = "pe_loop" /\ step.rule = "pass") =>
                 /\ token = step.la
                 /\ Len(out) = step.outLen + 1
                 /\ out[Len(out)] = step.cur

\* C5 witness: the duplicate rule was applied to a pair for which the
\* wrong-compound condition holds as well
C5_Witness ==
    /\ AfterStep
    /\ step.rule = "dup"
    /\ WrongCond(step.cur)
    /\ token.err.code = "C001"

\* C6: the duplicate rule fires exactly when the current and the lookahead
\* token are both word tokens with case-insensitively equal text that is
\* not in the duplicate-allow set, and then one word token with the current
\* token's text and a C001 error citing that text stands for the pair.
C6_DuplicateRule ==
    step.rule # "none" =>
        /\ (step.rule = "dup") <=>
              /\ step.cur.kind = "WORD"
              /\ step.la.kind = "WORD"
              /\ Lower(step.cur.txt) = Lower(step.la.txt)
              /\ Lower(step.cur.txt) \notin AllowedMultiples
        /\ (pc = "pe_loop" /\ step.rule = "dup") =>
              /\ token.kind = "WORD"
              /\ token.txt = step.cur.txt
              /\ token.err = [code |-> "C001", txt |-> <<step.cur.txt>>]

\* C7: no token whose lowercased text is a key of the wrong-compound mapping
\* leaves the phase unsplit: every emitted token with such a text is one of
\* the replacement words, carrying C002.
C7_WrongCompoundSplit ==
    PEFinished =>
        \A i \in DOMAIN out :
            WrongCond(out[i]) => out[i].err.code = "C002"

\* C8: when the lowercased pair is in the split-compound set and no rule of
\* higher priority matches, the pair is replaced by one word token whose
\* text is current.text + lookahead.text, carrying C003 naming both words;
\* it is the current token, nothing was emitted, and the lookahead was
\* consumed, so that the next one is read from the input.
C8_UniteSplitCompound ==
    (/\ AfterStep
     /\ ~DupCond(step.cur, step.la)
     /\ ~WrongCond(step.cur)
     /\ UniteCond(step.cur, step.la)) =>
        /\ step.rule = "unite"
        /\ token.kind = "WORD"
        /\ token.txt = step.cur.txt \o step.la.txt
        /\ Len(token.txt) = Len(step.cur.txt) + Len(step.la.txt)
        /\ token.err = [code |-> "C003", txt |-> <<step.cur.txt, step.la.txt>>]
        /\ Len(out) = step.outLen
        /\ org[2] = pos
        /\ step.la.txt = input[pos].txt

\* C8 witness: the words b and a were united into ba
C8_Witness ==
    /\ AfterStep
    /\ step.rule = "unite"
    /\ step.cur.txt = "b"
    /\ step.la.txt = "a"
    /\ token.txt = "ba"
    /\ token.err.code = "C003"

\* C9: parse_errors never raises; when the stream is exhausted the buffered
\* token is emitted once, as the last output token, and the output of the
\* empty stream is empty.
C9_Exhaustion ==
    /\ pc # "pe_raised"
    /\ (PEFinished /\ Len(input) = 0) => out = <<>>
    /\ (PEFinished /\ Len(input) > 0) =>
          /\ Len(out) >= 1
          /\ out[Len(out)] = token
          /\ \A i \in 1..(Len(out) - 1) : outOrg[i] # outOrg[Len(out)]

\* The input positions a list of origins covers
Covered(orgs) == UNION { orgs[i][1]..orgs[i][2] : i \in DOMAIN orgs }

\* C10: parse_errors never reorders tokens: the emitted tokens stand for
\* increasing input positions, a token without an error is the input token
\* of its position with the same kind, text and value, every input position
\* is accounted for at the end, and a stream in which no rule fires is
\* emitted as it came.
C10_InputOrder ==
    /\ \A i, j \in DOMAIN out :
          i < j => (outOrg[i][2] < outOrg[j][1]
                    \/ (outOrg[i] = outOrg[j] /\ out[i].err.code = "C002"))
    /\ pc = "pe_loop" => \A i \in DOMAIN out : outOrg[i][2] < org[1]
    /\ \A i \in DOMAIN out :
          out[i].err = NoErr =>
              /\ outOrg[i][1] = outOrg[i][2]
              /\ out[i].kind = input[outOrg[i][1]].kind
              /\ out[i].txt = input[outOrg[i][1]].txt
              /\ out[i].val = input[outOrg[i][1]].val
    /\ pc = "pe_done" => Covered(outOrg) = 1..Len(input)
    /\ (pc = "pe_done" /\ cnt.dup = 0 /\ cnt.split = 0 /\ cnt.unite = 0) =>
          /\ Len(out) = Len(input)
          /\ \A i \in DOMAIN out :
                /\ out[i].kind = input[i].kind
                /\ out[i].txt = input[i].txt
                /\ out[i].val = input[i].val
                /\ out[i].err = NoErr

\* C10 witness: a stream of several tokens, one of them with a value, in
\* which no rule fired, has been emitted
C10_Witness ==
    /\ pc = "pe_done"
    /\ cnt.dup = 0 /\ cnt.split = 0 /\ cnt.unite = 0
    /\ Len(out) >= 3
    /\ \E i \in DOMAIN out : out[i].val = "num"
    /\ \A i \in DOMAIN out : out[i].txt = input[i].txt

\* No duplicate, wrong-compound or split-compound pattern is in a stream
NoPattern(s) ==
    /\ \A i \in 1..(Len(s) - 1) :
          /\ ~DupCond(s[i], s[i + 1])
          /\ ~UniteCond(s[i], s[i + 1])
    /\ \A i \in DOMAIN s : ~WrongCond(s[i])

\* C11: parse_errors run again on its own output, in which no duplicate,
\* wrong-compound or split-compound pattern remains, yields the same token
\* sequence: each token with the same kind, text, value and error.
C11_Idempotent ==
    (passes >= 2 /\ pc = "pe_done" /\ NoPattern(input)) => out = input

\* C26: parse_errors reads the input once, in order, with one token of
\* lookahead: between two loop iterations every token read so far has
\* either been emitted or gone into the one current token, and nothing
\* else is kept; a pass-through or a split emits tokens while the loop is
\* still running, before the end of the input is seen.
C26_OneLookahead ==
    /\ pos <= Len(input)
    /\ pc = "pe_loop" =>
          /\ 1 <= org[1] /\ org[1] <= org[2]
          /\ org[2] = pos
          /\ Covered(outOrg) = 1..(org[1] - 1)
    /\ (AfterStep /\ step.rule \in {"pass", "split"}) =>
          /\ Len(out) > step.outLen
          /\ org = <<pos, pos>>

\* C26 witness: of three input tokens the first, a wrong compound, has
\* been split and emitted while the third has not been read
C26_Witness ==
    /\ AfterStep
    /\ step.rule = "split"
    /\ Len(input) = 3
    /\ pos = 2
    /\ Len(out) = 2

\* The input tokens s..e are word tokens of the same text, letter case
\* aside, and the text is not in the duplicate-allow set
EqualWordRun(s, e) ==
    \A i \in s..e :
        /\ input[i].kind = "WORD"
        /\ Lower(input[i].txt) = Lower(input[s].txt)
        /\ Lower(input[s].txt) \notin AllowedMultiples

C4_ErrorAttachedOnce ==
    /\ \A i \in DOMAIN lexed :
          out[i].err # NoErr => lexed[i].err = out[i].err
    /\ \A i \in DOMAIN out2 :
          out[i].err # NoErr => out2[i].err = out[i].err

\* The tokens of lexed that lookup_unknown_words has taken and that are
\* word tokens the lexicon left without meaning
Resolved == { i \in 1..lpos : Unannotated(lexed[i]) }

\* The positions in out2 of the tokens that stand for lexed[i], in order
Emitted(i) == { j \in DOMAIN out2 : out2Org[j] = i }

\* The first token emitted for lexed[i] carries the spelling error code
FirstCarries(i, code) ==
    /\ Emitted(i) # {}
    /\ \A j \in Emitted(i) :
          (\A k \in Emitted(i) : j <= k) => out2[j].err.code = code

\* C12: for a word token the lexicon left without meaning, exactly one
\* correction source is applied, the first that succeeds: the unique-error
\* dictionary (S001), else the malformed-form dictionary (S003), else the
\* spelling corrector if its proposal differs from the text (S002).
C12_CorrectionPriority ==
    \A i \in Resolved :
        LET t == lexed[i].txt
        IN /\ t \in DOMAIN UniqueErrorsDICT => FirstCarries(i, "S001")
           /\ (t \notin DOMAIN UniqueErrorsDICT /\ t \in DOMAIN ErrorFormsDICT) =>
                 FirstCarries(i, "S003")
           /\ (/\ t \notin DOMAIN UniqueErrorsDICT
               /\ t \notin DOMAIN ErrorFormsDICT
               /\ CorrectorCorrect(t) # t) => FirstCarries(i, "S002")

\* C13: a word token the lexicon left without meaning, whose text is in
\* neither dictionary and is what the spelling corrector returns for it,
\* is emitted exactly once, with the same kind, text and value, carrying
\* the UnknownWord error U001.
C13_MarkedUnknown ==
    \A i \in Resolved :
        LET t == lexed[i].txt
        IN (/\ t \notin DOMAIN UniqueErrorsDICT
            /\ t \notin DOMAIN ErrorFormsDICT
            /\ CorrectorCorrect(t) = t) =>
               /\ Cardinality(Emitted(i)) = 1
               /\ \A j \in Emitted(i) :
                     /\ out2[j].kind = lexed[i].kind
                     /\ out2[j].txt = lexed[i].txt
                     /\ out2[j].val = lexed[i].val
                     /\ out2[j].err = [code |-> "U001", txt |-> <<t>>]

\* C13 witness: the phase has ended and has emitted the unknown word ba,
\* with empty meanings, marked U001
C13_Witness ==
    /\ pc = "luw_done"
    /\ \E j \in DOMAIN out2 :
          /\ out2[j].txt = "ba"
          /\ out2[j].val = "empty"
          /\ out2[j].err.code = "U001"
          /\ Cardinality(Emitted(out2Org[j])) = 1

\* C14: a correction that replaces one token by n words emits exactly n
\* word tokens for it, the first carrying the Spelling error and the
\* others no error.
C14_Expansion ==
    \A i \in Resolved :
        ErrKind(lexed[i].txt) # 0 =>
            /\ Cardinality(Emitted(i)) = Len(Corrected(lexed[i].txt))
            /\ \A j \in Emitted(i) :
                  /\ out2[j].kind = "WORD"
                  /\ IF \A k \in Emitted(i) : j <= k
                     THEN out2[j].err.code \in {"S001", "S002", "S003"}
                     ELSE out2[j].err = NoErr

\* C15: a word token the lexicon left without meaning, whose text differs
\* only in letter case from a key of the unique-error dictionary, is
\* replaced by that key's replacement words, with Spelling error S001.
C15_UniqueErrorAnyCase ==
    \A i \in Resolved :
        \A key \in DOMAIN UniqueErrorsDICT :
            (lexed[i].txt # key /\ Lower(lexed[i].txt) = Lower(key)) =>
                /\ ErrKind(lexed[i].txt) = 1
                /\ Cardinality(Emitted(i)) = Len(UniqueErrorsDICT[key])
                /\ FirstCarries(i, "S001")

\* A token lookup_unknown_words is to leave alone: not a word token, or a
\* word token with meanings
Kept(t) == t.kind # "WORD" \/ t.val \notin {"None", "empty"}

\* C25: lookup_unknown_words emits every token that is not a word token,
\* and every word token that has meanings, once, as it came, at its place
\* in the order of the input; it changes the error of no such token.
C25_OthersUntouched ==
    /\ \A i \in 1..lpos :
          Kept(lexed[i]) =>
              /\ Cardinality(Emitted(i)) = 1
              /\ \A j \in Emitted(i) : out2[j] = lexed[i]
    /\ \A i, j \in DOMAIN out2 : i < j => out2Org[i] <= out2Org[j]
    /\ \A j \in DOMAIN out2 :
          out2[j].err # lexed[out2Org[j]].err => ~Kept(lexed[out2Org[j]])

\* C25 witness: the phase has ended and has emitted, as they came, a
\* number token and a word with meanings that carries a C001 error
C25_Witness ==
    /\ pc = "luw_done"
    /\ \E j \in DOMAIN out2 :
          out2[j].kind = "NUMBER" /\ out2[j] = lexed[out2Org[j]]
    /\ \E j \in DOMAIN out2 :
          /\ out2[j].kind = "WORD"
          /\ out2[j].val = "meanings"
          /\ out2[j].err.code = "C001"
          /\ out2[j] = lexed[out2Org[j]]

(***************************************************************************)
(* Properties of the annotation assembler (annotate)                       *)
(***************************************************************************)
\* C1: the list annotate returns is sorted by (start ascending, end
\* descending), whether the sentence is parsed or not and in whatever
\* order the annotations were collected.
C1_Sorted ==
    apc = "returned" =>
        \A i, j \in DOMAIN ann :
            i < j =>
                \/ ann[i].start < ann[j].start
                \/ ann[i].start = ann[j].start /\ ann[i].end >= ann[j].end

\* C1 witness: the walk found a tagged nonterminal over the first token
\* before one over the whole sentence, and the wider one is listed first
C1_Witness ==
    /\ apc = "returned"
    /\ sent.parsed
    /\ Len(sent.tokens) = 2
    /\ Len(sent.tree) = 2
    /\ sent.tree[1].nt /\ sent.tree[1].last = 0
    /\ sent.tree[2].nt /\ sent.tree[2].last = 1
    /\ Len(ann) = 2
    /\ ann[1].start = 0 /\ ann[1].end = 1
    /\ ann[2].start = 0 /\ ann[2].end = 0

\* The positions of the tokens of the sentence that carry an error
ErrorTokens == { i \in DOMAIN sent.tokens : HasError(sent.tokens[i]) }

SpanOf(t) == IF t.error_span = 0 THEN 1 ELSE t.error_span

\* The codes of token-level annotations
TokenCodes == { t.error_code : t \in SentTokens } \ { "" }

\* The positions in ann of the token-level annotations of the token at
\* index i (counted from 0)
TokenAnns(i) ==
    { j \in DOMAIN ann : ann[j].code \in TokenCodes /\ ann[j].start = i }

\* C16: every token with an error that the first loop of annotate has taken
\* has exactly one annotation, [index, index + error-span - 1] with the
\* token's error code and description, error-span being 1 unless the token
\* declares one; a token without an error has none; and the loop raises no
\* exception.
C16_TokenAnnotations ==
    /\ apc # "raised"
    /\ \A i \in 1..ix :
          LET t == sent.tokens[i]
          IN IF HasError(t)
             THEN /\ Cardinality(TokenAnns(i - 1)) = 1
                  /\ \A j \in TokenAnns(i - 1) :
                        /\ ann[j].end = (i - 1) + SpanOf(t) - 1
                        /\ ann[j].code = t.error_code
                        /\ ann[j].text = Format("{0}", <<t.error_description>>)
             ELSE TokenAnns(i - 1) = {}

\* C17: every annotation of the list annotate returns has
\* 0 <= start <= end < number of tokens of the sentence.
C17_SpanInvariant ==
    apc = "returned" =>
        \A i \in DOMAIN ann :
            /\ 0 <= ann[i].start
            /\ ann[i].start <= ann[i].end
            /\ ann[i].end < Len(sent.tokens)

(***************************************************************************)
(* Properties of the parse-tree walk (ErrorFinder)                         *)
(***************************************************************************)
\* A nonterminal node that is tagged as an error and is neither interior
\* nor optional
Tagged(node) ==
    node.nt /\ node.tag_error /\ ~node.is_interior /\ ~node.is_optional

\* A verb terminal whose lemma has an entry in the table of wrong subject
\* cases for its subject case
WrongCase(node) ==
    /\ ~node.nt
    /\ SubjVerb(node)
    /\ node.lemma \in DOMAIN VERBS_ERRORS
    /\ node.variants[Len(node.variants)] \in DOMAIN VERBS_ERRORS[node.lemma]

\* The walk is under way: the token loop is over, nothing is sorted yet,
\* and ann holds the annotations in the order they were appended
Walking == ScanDone /\ sent.parsed

\* The position in ann of the annotation the k-th node of the walk gave
AnnOf(k) ==
    Cardinality(ErrorTokens)
    + Cardinality({ m \in 1..k : Tagged(sent.tree[m]) \/ WrongCase(sent.tree[m]) })

\* Whether a code starts with a prefix
StartsWith(code, prefix) ==
    Len(code) >= Len(prefix) /\ SubSeq(code, 1, Len(prefix)) = prefix

\* The positions in ann of the annotations with a code of a prefix
WithPrefix(prefix) == { j \in DOMAIN ann : StartsWith(ann[j].code, prefix) }

\* C18: every tagged nonterminal the walk has entered that is neither
\* interior nor optional has given exactly one annotation, from its first
\* to its last token index, whatever other tagged nonterminal covers it;
\* interior and optional nonterminals have given none.
C18_TaggedNonterminals ==
    (sent.parsed /\ (Walking \/ apc = "returned")) =>
        /\ Cardinality(WithPrefix("P_NT_"))
              = Cardinality({ k \in 1..nix : Tagged(sent.tree[k]) })
        /\ Walking =>
              \A k \in 1..nix :
                  Tagged(sent.tree[k]) =>
                      /\ AnnOf(k) \in DOMAIN ann
                      /\ ann[AnnOf(k)].start = sent.tree[k].first
                      /\ ann[AnnOf(k)].end = sent.tree[k].last
                      /\ StartsWith(ann[AnnOf(k)].code, "P_NT_")
        /\ apc = "returned" =>
              \A k \in 1..nix :
                  Tagged(sent.tree[k]) =>
                      \E j \in WithPrefix("P_NT_") :
                          /\ ann[j].start = sent.tree[k].first
                          /\ ann[j].end = sent.tree[k].last

\* C18 witness: a tagged nonterminal over the whole sentence and a tagged
\* nonterminal below it, over the first token only, have each given an
\* annotation
C18_Witness ==
    /\ apc = "returned"
    /\ Len(sent.tokens) = 2
    /\ Len(sent.tree) = 2
    /\ Tagged(sent.tree[1]) /\ sent.tree[1].first = 0 /\ sent.tree[1].last = 1
    /\ Tagged(sent.tree[2]) /\ sent.tree[2].first = 0 /\ sent.tree[2].last = 0
    /\ Cardinality(WithPrefix("P_NT_")) = 2

\* The codes of the annotations the walk has given are made of the given
\* prefixes: for a tagged nonterminal, ntPrefix and the base name of the
\* nonterminal (its name up to the first "_") without a leading "Villa";
\* for a wrong subject case, casePrefix, the actual case, "_" and the
\* expected case
TreeCodes(ntPrefix, casePrefix) ==
    Walking =>
        \A k \in 1..nix :
            LET node == sent.tree[k]
            IN /\ Tagged(node) =>
                    /\ AnnOf(k) \in DOMAIN ann
                    /\ StartsWith(ann[AnnOf(k)].code, ntPrefix)
                    /\ LET rest == SubSeq(ann[AnnOf(k)].code, Len(ntPrefix) + 1,
                                          Len(ann[AnnOf(k)].code))
                       IN /\ IndexOf(rest, "_", 1) = 0
                          /\ \/ node.name = rest
                             \/ node.name = "Villa" \o rest
                             \/ StartsWith(node.name, rest \o "_")
                             \/ StartsWith(node.name, "Villa" \o rest \o "_")
                          /\ StartsWith(node.name, "Villa") => ~StartsWith(rest, "Villa")
               /\ WrongCase(node) =>
                    /\ AnnOf(k) \in DOMAIN ann
                    /\ ann[AnnOf(k)].code =
                          casePrefix \o node.variants[Len(node.variants)] \o "_"
                          \o VERBS_ERRORS[node.lemma][node.variants[Len(node.variants)]]

SubjectSpan(node) ==
    IF node.vp /\ node.vp_subj # NoSpan THEN node.vp_subj
    ELSE IF node.ip /\ node.ip_subj # NoSpan THEN node.ip_subj
    ELSE <<node.first, node.first>>

\* C20: a verb terminal with a table entry for its subject case has given
\* exactly one annotation, over the subject of the enclosing verb phrase
\* if there is one, else over the subject of the enclosing inflected
\* phrase if there is one, else over the verb's own token; a verb terminal
\* without a table entry has given none.
C20_WrongSubjectCase ==
    (sent.parsed /\ (Walking \/ apc = "returned")) =>
        /\ Cardinality(WithPrefix("P_WRONG_CASE_"))
              = Cardinality({ k \in 1..nix : WrongCase(sent.tree[k]) })
        /\ Walking =>
              \A k \in 1..nix :
                  WrongCase(sent.tree[k]) =>
                      /\ AnnOf(k) \in DOMAIN ann
                      /\ StartsWith(ann[AnnOf(k)].code, "P_WRONG_CASE_")
                      /\ <<ann[AnnOf(k)].start, ann[AnnOf(k)].end>>
                            = SubjectSpan(sent.tree[k])

\* C20 witness: a verb with a wrong subject case and no subject in reach
\* has given an annotation over its own token, and a verb with a subject
\* both in its verb phrase and in its inflected phrase one over the former
C20_Witness ==
    /\ Walking
    /\ Len(sent.tokens) = 2
    /\ nix = 2
    /\ WrongCase(sent.tree[1])
    /\ sent.tree[1].vp_subj = NoSpan /\ sent.tree[1].ip_subj = NoSpan
    /\ WrongCase(sent.tree[2])
    /\ sent.tree[2].vp_subj = <<0, 0>> /\ sent.tree[2].ip_subj = <<0, 1>>
    /\ Len(ann) >= 2
    /\ ann[Len(ann)].start = 0 /\ ann[Len(ann)].end = 0
    /\ ann[Len(ann) - 1].start = 0 /\ ann[Len(ann) - 1].end = 0

\* C21: no step of annotate changes the sentence: its tokens, their order
\* and fields, and its deep tree stay as they were handed in.
C21_SentenceUnchanged == [][sent' = sent]_vars

\* C21 witness: annotate has returned annotations of both kinds for a
\* parsed sentence: one of a token and one of a tree node
C21_Witness ==
    /\ apc = "returned"
    /\ sent.parsed
    /\ ErrorTokens # {}
    /\ \E j \in DOMAIN ann : ann[j].code \in TokenCodes
    /\ WithPrefix("P_") # {}

\* C24: the list annotate returns holds the E001 annotation exactly when
\* the sentence has no deep tree, and then once; the walk enters a node,
\* and annotations of tree nodes appear, only if there is a deep tree.
C24_FallbackIffNoTree ==
    /\ apc = "returned" =>
          /\ Cardinality({ j \in DOMAIN ann : ann[j].code = "E001" })
                = (IF sent.parsed THEN 0 ELSE 1)
          /\ ~sent.parsed => WithPrefix("P_") = {}
    /\ ~sent.parsed => nix = 0

\* C24 witness: annotate has returned for a parsed sentence of two tokens
\* with an annotation of a tree node, and without E001
C24_Witness ==
    /\ apc = "returned"
    /\ sent.parsed
    /\ Len(sent.tokens) = 2
    /\ nix = Len(sent.tree)
    /\ WithPrefix("P_NT_") # {}
    /\ \A j \in DOMAIN ann : ann[j].code # "E001"

InitParser ==
    /\ PipelineIdle
    /\ AnnotateIdle
    /\ ParserIdle
    /\ EvalIdle

\* The grammar definition is modified while the program runs
ModifyGrammar ==
    /\ grammar < MaxMods
    /\ grammar' = grammar + 1
    /\ UNCHANGED <<parser, reducer, lock, tpc, edp, seen, got, builds>>
    /\ UNCHANGED <<tokVars, luwVars, pc, annVars, evalVars>>

\* _parser.is_grammar_modified()[0]
is_grammar_modified(p) == p.gver # grammar

\* Acquire that does not wait for the lock
AcquireNoLock(t) ==
    /\ tpc[t] \in {"idle", "done", "assert_failed"}
    /\ lock' = t
    /\ tpc' = [tpc EXCEPT ![t] = "check"]
    /\ got' = [got EXCEPT ![t] = [parser |-> NoParser, reducer |-> NoReducer]]
    /\ UNCHANGED <<parser, reducer, grammar, edp, seen, builds>>
    /\ UNCHANGED <<tokVars, luwVars, pc, annVars, evalVars>>

\* A thread reads the parser property: with self._lock
Acquire(t) ==
    /\ tpc[t] \in {"idle", "done", "assert_failed"}
    /\ lock = None
    /\ lock' = t
    /\ tpc' = [tpc EXCEPT ![t] = "check"]
    /\ got' = [got EXCEPT ![t] = [parser |-> NoParser, reducer |-> NoReducer]]
    /\ UNCHANGED <<parser, reducer, grammar, edp, seen, builds>>
    /\ UNCHANGED <<tokVars, luwVars, pc, annVars, evalVars>>

\* The condition of the if: no parser, or the grammar has been modified
Check(t) ==
    /\ tpc[t] = "check"
    /\ seen' = [seen EXCEPT ![t] = grammar]
    /\ tpc' = [tpc EXCEPT ![t] =
                 IF parser = NoParser \/ is_grammar_modified(parser)
                 THEN "build_parser" ELSE "return"]
    /\ UNCHANGED <<parser, reducer, lock, grammar, edp, got, builds>>
    /\ UNCHANGED <<tokVars, luwVars, pc, annVars, evalVars>>

\* ReynirCorrect._parser = edp = ErrorDetectingParser()
BuildParser(t) ==
    /\ tpc[t] = "build_parser"
    /\ LET p == [id |-> Len(builds) + 1, gver |-> grammar]
       IN /\ parser' = p
          /\ edp' = [edp EXCEPT ![t] = p]
    /\ builds' = Append(builds, grammar)
    /\ tpc' = [tpc EXCEPT ![t] = "build_reducer"]
    /\ UNCHANGED <<reducer, lock, grammar, seen, got>>
    /\ UNCHANGED <<tokVars, luwVars, pc, annVars, evalVars>>

\* ReynirCorrect._reducer = Reducer(edp.grammar)
BuildReducer(t) ==
    /\ tpc[t] = "build_reducer"
    /\ reducer' = [of |-> edp[t].id]
    /\ tpc' = [tpc EXCEPT ![t] = "return"]
    /\ UNCHANGED <<parser, lock, grammar, edp, seen, got, builds>>
    /\ UNCHANGED <<tokVars, luwVars, pc, annVars, evalVars>>

\* return ReynirCorrect._parser, and the end of the with block
ReturnParser(t) ==
    /\ tpc[t] = "return"
    /\ got' = [got EXCEPT ![t].parser = parser]
    /\ lock' = None
    /\ tpc' = [tpc EXCEPT ![t] = "got_parser"]
    /\ UNCHANGED <<parser, reducer, grammar, edp, seen, builds>>
    /\ UNCHANGED <<tokVars, luwVars, pc, annVars, evalVars>>

\* The thread, holding its parser, reads the reducer property
ReadReducer(t) ==
    /\ tpc[t] = "got_parser"
    /\ IF reducer # NoReducer
       THEN /\ got' = [got EXCEPT ![t].reducer = reducer]
            /\ tpc' = [tpc EXCEPT ![t] = "done"]
       ELSE /\ tpc' = [tpc EXCEPT ![t] = "assert_failed"]
            /\ UNCHANGED got
    /\ UNCHANGED <<parser, reducer, lock, grammar, edp, seen, builds>>
    /\ UNCHANGED <<tokVars, luwVars, pc, annVars, evalVars>>

NextParser ==
    \/ ModifyGrammar
    \/ \E t \in Threads : Acquire(t)
    \/ \E t \in Threads : Check(t)
    \/ \E t \in Threads : BuildParser(t)
    \/ \E t \in Threads : BuildReducer(t)
    \/ \E t \in Threads : ReturnParser(t)
    \/ \E t \in Threads : ReadReducer(t)

SpecParser == InitParser /\ [][NextParser]_vars

\* The threads that are inside the with block of the parser property
InParser == { t \in Threads : tpc[t] \in {"check", "build_parser", "build_reducer", "return"} }

\* C22: whatever the interleaving, at most one thread is inside the with
\* block of the parser property; a parser is constructed only by an access
\* that found no parser or found the grammar modified, so never twice for
\* the same state of the grammar; and two accesses whose checks saw the
\* same state of the grammar return the same parser instance.
C22_OneParser ==
    /\ Cardinality(InParser) <= 1
    /\ \A t \in InParser : lock = t
    /\ \A i, j \in DOMAIN builds : i < j => builds[i] < builds[j]
    /\ Len(builds) <= grammar + 1
    /\ \A t \in Threads :
          tpc[t] = "build_parser" =>
              parser = NoParser \/ parser.gver # seen[t]
    /\ \A t, u \in Threads :
          (got[t].parser # NoParser /\ got[u].parser # NoParser /\ seen[t] = seen[u]) =>
              got[t].parser = got[u].parser

\* C22 witness: the grammar has not been modified, one thread has built
\* the pair and both threads have been handed the same parser
C22_Witness ==
    /\ grammar = 0
    /\ Len(builds) = 1
    /\ \A t \in Threads : got[t].parser.id = 1

\* C28: a thread that has read parser and then reducer holds the reducer
\* that was built from the grammar of the parser it holds, and the
\* assertion of the reducer property has not failed.
C28_ReducerOfOwnParser ==
    \A t \in Threads :
        /\ tpc[t] # "assert_failed"
        /\ tpc[t] = "done" => got[t].reducer.of = got[t].parser.id

(***************************************************************************)
(* eval.py: process(), for one sentence of a corpus file                   *)
(*                                                                         *)
(* An element of the sentence is a plain token, or a revision that holds   *)
(* one original token and one error.  An error dict keeps the keys start,  *)
(* end, xtype, in_scope and corrected; rev_id, eid and original are never  *)
(* read by the code modelled here.  The checker is taken to return one     *)
(* sentence for the text.                                                  *)
(***************************************************************************)
\* How many elements a sentence has
MaxElems == 3

\* How many annotations the checker reports
MaxAnns == 2

\* The error types that are out of scope: two of the set
OUT_OF_SCOPE == {"context", "aux"}

\* A plain token of the sentence
Word == [tag |-> "w", xtype |-> "", idx |-> "", depId |-> ""]

\* A revision with one original token and one error of the given attributes
Revision(xtype, idx, depId) ==
    [tag |-> "revision", xtype |-> xtype, idx |-> idx, depId |-> depId]

\* The elements of a sentence, with errors that depend on other errors
Elements ==
    {Word}
    \cup { Revision("dep", i, d) : i \in IdxValues \cup {""}, d \in IdxValues \cup {""} }
    \cup { Revision(x, i, "") : x \in {"nonword", "context"}, i \in IdxValues \cup {""} }

\* The elements of a sentence without idx and depId attributes
PlainElements == { Word, Revision("nonword", "", ""), Revision("context", "", "") }

\* An annotation of the checker, as process() reads it
GcAnnotation(start, end, is_error) ==
    [start |-> start, end |-> end, is_error |-> is_error, suggest |-> "x"]

\* The annotations the checker can report on a sentence of k tokens
GcAnnotations(k) ==
    { GcAnnotation(st, en, b) :
        st \in 0..(k - 1), en \in 0..(k - 1), b \in BOOLEAN }

\* The annotations of a sentence come ordered by their start
SortedAnns(a) ==
    /\ \A i \in DOMAIN a : a[i].start <= a[i].end /\ a[i].end <= a[i].start + 1
    /\ \A i \in 1..(Len(a) - 1) : a[i].start <= a[i + 1].start

\* process() starts on a sentence: either its errors carry idx and depId
\* attributes and the checker reports nothing, or they carry none and the
\* checker reports some annotations
InitEval ==
    /\ PipelineIdle
    /\ AnnotateIdle
    /\ ParserIdle
    /\ \E k \in 1..MaxElems :
         \/ /\ sentence \in [1..k -> Elements]
            /\ gcanns = <<>>
         \/ /\ sentence \in [1..k -> PlainElements]
            /\ \E m \in 1..MaxAnns :
                 \E a \in [1..m -> GcAnnotations(k)] :
                    SortedAnns(a) /\ gcanns = a
    /\ epc = "collect"
    /\ EvalStart

\* The dict built for an error element
ErrorDict(start, end, xtype) ==
    [start |-> start, end |-> end, xtype |-> xtype,
     in_scope |-> xtype \notin OUT_OF_SCOPE, corrected |-> "y"]

\* One iteration of the loop over the elements of the sentence
CollectElement ==
    /\ epc = "collect"
    /\ ei < Len(sentence)
    /\ LET el == sentence[ei + 1]
           start == ntokens
           end == start
           n == Len(errors) + 1
       IN IF el.tag = "revision"
          THEN /\ errors' = Append(errors, ErrorDict(start, end, el.xtype))
               /\ error_indexes' =
                     IF el.idx # ""
                     THEN [error_indexes EXCEPT ![el.idx] = n]
                     ELSE error_indexes
               /\ dependencies' =
                     IF el.xtype = "dep" /\ el.depId # ""
                     THEN Append(dependencies, <<el.depId, n>>)
                     ELSE dependencies
               /\ buffer' =
                     IF el.xtype = "dep" /\ el.depId = ""
                     THEN Append(buffer,
                                 [line |-> "depId attribute missing for dependency",
                                  idx |-> ""])
                     ELSE buffer
          ELSE UNCHANGED <<errors, error_indexes, dependencies, buffer>>
    /\ ntokens' = ntokens + 1
    /\ ei' = ei + 1
    /\ epc' = IF ei + 1 = Len(sentence) THEN "fixup" ELSE "collect"
    /\ UNCHANGED <<sentence, gcanns, di, mrg, stats>>
    /\ UNCHANGED <<tokVars, luwVars, pc, annVars, lockVars>>

\* FixUp that gives up on a dependency it cannot resolve
FixUpAborts ==
    /\ epc = "fixup"
    /\ di < Len(dependencies)
    /\ LET dep_id == dependencies[di + 1][1]
           error == dependencies[di + 1][2]
       IN IF error_indexes[dep_id] = 0
          THEN /\ epc' = "raised_KeyError"
               /\ UNCHANGED <<errors, buffer, di>>
          ELSE /\ errors' = [errors EXCEPT ![error].in_scope =
                                errors[error_indexes[dep_id]].in_scope]
               /\ di' = di + 1
               /\ UNCHANGED <<buffer, epc>>
    /\ UNCHANGED <<sentence, gcanns, ei, ntokens, error_indexes, dependencies, mrg, stats>>
    /\ UNCHANGED <<tokVars, luwVars, pc, annVars, lockVars>>

\* One iteration of the loop that fixes up the dependencies
FixUp ==
    /\ epc = "fixup"
    /\ di < Len(dependencies)
    /\ LET dep_id == dependencies[di + 1][1]
           error == dependencies[di + 1][2]
       IN IF error_indexes[dep_id] = 0
          THEN /\ buffer' = Append(buffer, [line |-> "No error has idx", idx |-> dep_id])
               /\ UNCHANGED errors
          ELSE /\ errors' = [errors EXCEPT ![error].in_scope =
                                errors[error_indexes[dep_id]].in_scope]
               /\ UNCHANGED buffer
    /\ di' = di + 1
    /\ UNCHANGED <<sentence, gcanns, epc, ei, ntokens, error_indexes, dependencies, mrg, stats>>
    /\ UNCHANGED <<tokVars, luwVars, pc, annVars, lockVars>>

\* gc_error: the checker reports an annotation that is an error
gc_error == \E i \in DOMAIN gcanns : gcanns[i].is_error

\* ice_error: the gold standard has an error that is in scope
ice_error == \E i \in DOMAIN errors : errors[i].in_scope

\* What iecoutput iterates over: the errors that are in scope
InScope == SelectSeq(errors, LAMBDA y : y.in_scope)

\* The fix-up loop has ended and the checker has returned
Fixed == epc = "fixup" /\ di = Len(dependencies)

\* Both report errors: the first next() on each iterator
MergeStart ==
    /\ Fixed
    /\ ice_error /\ gc_error
    /\ mrg' = [NoMerge EXCEPT !.gi = 1, !.ii = 1]
    /\ epc' = "merge"
    /\ UNCHANGED <<sentence, gcanns, ei, ntokens, errors, error_indexes,
                   dependencies, di, buffer, stats>>
    /\ UNCHANGED <<tokVars, luwVars, pc, annVars, lockVars>>

\* One iteration of the while True loop of the merge comparison
MergeStep ==
    /\ epc = "merge"
    /\ LET x == gcanns[mrg.gi]
           y == InScope[mrg.ii]
           lastX == mrg.gi = Len(gcanns)
           lastY == mrg.ii = Len(InScope)
           same == x.start = y.start
           counted ==
               IF same THEN [mrg EXCEPT !.tp = @ + 1]
               ELSE IF x.start < y.start THEN [mrg EXCEPT !.fp = @ + 1]
               ELSE [mrg EXCEPT !.fn = @ + 1]
           spanned ==
               IF ~same THEN counted
               ELSE IF x.end = y.end THEN [counted EXCEPT !.right_span = @ + 1]
               ELSE [counted EXCEPT !.wrong_span = @ + 1]
           keyError == same /\ x.end = y.end /\ "correction" \notin DOMAIN y
           corrected ==
               IF same /\ x.end = y.end /\ ~keyError
               THEN IF x.suggest = y.correction
                    THEN [spanned EXCEPT !.right_corr = @ + 1]
                    ELSE [spanned EXCEPT !.wrong_corr = @ + 1]
               ELSE spanned
           nextX == same \/ x.start < y.start
           nextY == same \/ x.start > y.start
           stopX == nextX /\ lastX
           stopY == nextY /\ ~stopX /\ lastY
       IN /\ mrg' = IF keyError THEN spanned
                    ELSE [corrected EXCEPT
                            !.gi = IF nextX /\ ~stopX THEN @ + 1 ELSE @,
                            !.ii = IF nextY /\ ~stopX /\ ~stopY THEN @ + 1 ELSE @]
          /\ epc' = IF keyError THEN "raised_KeyError"
                    ELSE IF stopX \/ stopY THEN "raised_StopIteration"
                    ELSE "merge"
    /\ UNCHANGED <<sentence, gcanns, ei, ntokens, errors, error_indexes,
                   dependencies, di, buffer, stats>>
    /\ UNCHANGED <<tokVars, luwVars, pc, annVars, lockVars>>

\* Only the gold standard has errors: one false negative for each
OnlyGold ==
    /\ Fixed
    /\ ice_error /\ ~gc_error
    /\ mrg' = [NoMerge EXCEPT !.fn = Len(InScope)]
    /\ epc' = "counted"
    /\ UNCHANGED <<sentence, gcanns, ei, ntokens, errors, error_indexes,
                   dependencies, di, buffer, stats>>
    /\ UNCHANGED <<tokVars, luwVars, pc, annVars, lockVars>>

\* Only the checker reports errors: one false positive for each annotation
OnlyChecker ==
    /\ Fixed
    /\ ~ice_error /\ gc_error
    /\ mrg' = [NoMerge EXCEPT !.fp = Len(gcanns)]
    /\ epc' = "counted"
    /\ UNCHANGED <<sentence, gcanns, ei, ntokens, errors, error_indexes,
                   dependencies, di, buffer, stats>>
    /\ UNCHANGED <<tokVars, luwVars, pc, annVars, lockVars>>

\* Nothing found on either side
NothingFound ==
    /\ Fixed
    /\ ~ice_error /\ ~gc_error
    /\ mrg' = NoMerge
    /\ epc' = "counted"
    /\ UNCHANGED <<sentence, gcanns, ei, ntokens, errors, error_indexes,
                   dependencies, di, buffer, stats>>
    /\ UNCHANGED <<tokVars, luwVars, pc, annVars, lockVars>>

\* tn is computed, the tuple of the sentence is appended to stats and, the
\* sentence being the last of the file, process() returns its dict
AppendStats ==
    /\ epc = "counted"
    /\ stats' = Append(stats,
                       [ntokens |-> ntokens, ice_error |-> ice_error,
                        gc_error |-> gc_error, tp |-> mrg.tp,
                        tn |-> ntokens - mrg.fp - mrg.fn - mrg.tp,
                        fp |-> mrg.fp, fn |-> mrg.fn,
                        right_corr |-> mrg.right_corr, wrong_corr |-> mrg.wrong_corr,
                        right_span |-> mrg.right_span, wrong_span |-> mrg.wrong_span])
    /\ epc' = "returned"
    /\ UNCHANGED <<sentence, gcanns, ei, ntokens, errors, error_indexes,
                   dependencies, di, buffer, mrg>>
    /\ UNCHANGED <<tokVars, luwVars, pc, annVars, lockVars>>

NextEval ==
    \/ CollectElement
    \/ FixUp
    \/ MergeStart
    \/ MergeStep
    \/ OnlyGold
    \/ OnlyChecker
    \/ NothingFound
    \/ AppendStats

SpecEval == InitEval /\ [][NextEval]_vars

\* process() has left through an exception
Raised == epc \in {"raised_StopIteration", "raised_KeyError"}

\* The in_scope value the error at position e of errors is built with
OwnScope(e) == errors[e].xtype \notin OUT_OF_SCOPE

\* The dependency at position k of dependencies refers to an idx that some
\* error of the sentence has
Resolves(k) == error_indexes[dependencies[k][1]] # 0

\* The error the dependency at position k refers to
Referred(k) == error_indexes[dependencies[k][1]]

\* How many dependency errors without a depId the first loop has seen
MissingDepId ==
    Cardinality({ p \in 1..ei :
        sentence[p].tag = "revision" /\ sentence[p].xtype = "dep" /\ sentence[p].depId = "" })

\* What holds of the errors whatever the dependencies are: every element
\* has been taken, every error has the span of its own revision, an error
\* that no dependency has rewritten has the in_scope value of its own
\* type, every dependency without depId and every dependency that does not
\* resolve has its diagnostic line, and no exception has come from the two
\* loops: an exception, if any, has come from the merge comparison.
DependenciesReported ==
    /\ Len(errors) = Cardinality({ p \in 1..ei : sentence[p].tag = "revision" })
    /\ ntokens = ei
    /\ \A e \in DOMAIN errors :
          /\ errors[e].start = errors[e].end
          /\ errors[e].start < ei
          /\ sentence[errors[e].start + 1].tag = "revision"
          /\ sentence[errors[e].start + 1].xtype = errors[e].xtype
          /\ \A f \in DOMAIN errors : e < f => errors[e].start < errors[f].start
    /\ \A e \in DOMAIN errors :
          (\A k \in 1..di : dependencies[k][2] = e => ~Resolves(k)) =>
              errors[e].in_scope = OwnScope(e)
    /\ epc # "collect" =>
          \A k \in 1..di :
              ~Resolves(k) =>
                  \E b \in DOMAIN buffer :
                      buffer[b] = [line |-> "No error has idx", idx |-> dependencies[k][1]]
    /\ Cardinality({ b \in DOMAIN buffer :
                        buffer[b].line = "depId attribute missing for dependency" })
          = MissingDepId
    /\ epc # "collect" =>
          Cardinality({ b \in DOMAIN buffer : buffer[b].line = "No error has idx" })
             = Cardinality({ k \in 1..di : ~Resolves(k) })
    /\ epc \notin {"collect", "fixup"} =>
          ei = Len(sentence) /\ di = Len(dependencies)
    /\ Raised => mrg.gi > 0

C30_MergeReturns ==
    /\ ~Raised
    /\ epc = "returned" => Len(stats) = 1

====
